---- MODULE Spec2Model ----
(***************************************************************************)
(* State-machine model of RgbLightHandler (src/spi_rgbleds/                *)
(* RgbLightHandler.cpp): the handler object, its worker thread, one        *)
(* controlling thread calling start()/stop(), and caller threads calling   *)
(* setPatternLeft / setPatternRight / setPatterns.                         *)
(*                                                                         *)
(* Colours are vectors of NUM_COLORS channels.  A channel value x in       *)
(* [0.0, 1.0] is represented by the integer x * Scale; Scale is chosen so  *)
(* that every per-step delta of transitionBoth is an integer, so the       *)
(* arithmetic below is the exact (rounding-free) value of the float        *)
(* arithmetic of the source.                                               *)
(***************************************************************************)
EXTENDS Integers, Sequences, FiniteSets, TLC

\* ------------------------------------------------------------------ bounds
\* Largest transitionTime / transitionRefreshInterval given to the constructor.
MaxTransitionTime == 3
MaxTransitionRefreshInterval == 2
\* Number of replacement calls made in one run, each by a thread of its own:
\* NumCallers where every constructor argument is explored (Spec),
\* NumLiveCallers where one configuration is followed to the end (LiveSpec).
NumCallers == 2
NumLiveCallers == 3

\* ------------------------------------------------------- program constants
\* Channels per colour (R, G, B, W).
NUM_COLORS == 4
\* "int interval = 20;"
InitialInterval == 20
\* refreshInterval of the baseline constant-colour pattern.
ConstantRefreshInterval == 2
\* The constructor arguments of the documented scenario: refresh interval
\* 10 ms, duration 100 ms (with default colour [0,0,0,0]).
ScenarioRefreshInterval == 10
ScenarioTransitionTime == 100

RECURSIVE GCD(_, _)
GCD(a, b) == IF b = 0 THEN a ELSE GCD(b, a % b)

RECURSIVE LCMUpTo(_)
LCMUpTo(n) == IF n <= 1 THEN 1 ELSE (LCMUpTo(n - 1) * n) \div GCD(LCMUpTo(n - 1), n)

\* The integer standing for the float 1.0.
Scale ==
    2 * LCMUpTo(MaxTransitionTime) * (ScenarioTransitionTime \div ScenarioRefreshInterval)

Channels == 1..NUM_COLORS

Black == [j \in Channels |-> 0]
White == [j \in Channels |-> Scale]
HalfRed == [j \in Channels |-> IF j = 1 THEN Scale \div 2 ELSE 0]

\* new RgbLightConstant(defaultColor)
RgbLightConstant(c) == [color |-> c, refreshInterval |-> ConstantRefreshInterval]

\* The patterns callers hand to the replacement operations.
CallerPatterns ==
    { [color |-> White, refreshInterval |-> 1],
      [color |-> HalfRed, refreshInterval |-> 3] }

\* The defaultColor arguments of the constructors: a colour that differs
\* from the all-zero colours the worker's locals start with.
DefaultColors == {HalfRed}

\* The threads that may make a replacement call.
NumThreads == IF NumLiveCallers > NumCallers THEN NumLiveCallers ELSE NumCallers
Callers == 1..NumThreads
Ops == {"Left", "Right", "Both"}

\* A caller thread outside any call has no operation and no argument.
NoOp == "none"
NoPattern == [color |-> Black, refreshInterval |-> 0]

\* The storage of a deleted instance holds nothing the program may read.
Freed == [color |-> Black, refreshInterval |-> 0]

NoHolder == 0
WorkerHolder == NumThreads + 1

VARIABLES
    \* handler fields
    transitionsEnabled, transitionRefreshInterval, transitionTime,
    defaultColor,               \* the constructor's defaultColor argument
    patternLeft, patternRight,  \* pointers: indices into heap
    patternsChanged, isRunning,
    patternMutex,               \* NoHolder, WorkerHolder or a caller
    workerThread,               \* TRUE iff workerThread.joinable()
    \* the free store: the pattern instance held by each slot, or Freed
    heap,
    \* worker thread: position and locals of worker() and transitionBoth()
    workerPc, interval, colorLeft, colorRight,
    leftFrom, rightFrom, leftTo, rightTo, leftDelta, rightDelta, i,
    \* controlling thread: "idle" between calls, else its position in
    \* start() or stop(); dtor: the stop() it is in was called by the destructor
    mainPc, dtor,
    \* caller threads: position, operation and argument
    callPc, callOp, callArg,
    \* the Output Sink: last pair pushed, and by which code
    pwmDriver, pushKind, transPushes,
    \* std::terminate was called
    terminated,
    \* history: the patterns the worker sampled last; which pending calls have
    \* waited for the mutex while a transition pushed a pair; the number of
    \* replacement calls that raised the dirty flag minus the number of calls
    \* of transitionBoth
    seenLeft, seenRight, waited, surplus

handlerVars == <<transitionsEnabled, transitionRefreshInterval, transitionTime,
                 defaultColor, patternLeft, patternRight, patternsChanged, isRunning,
                 patternMutex, workerThread, heap>>
configVars == <<transitionsEnabled, transitionRefreshInterval, transitionTime, defaultColor>>
patternVars == <<patternLeft, patternRight, heap>>
workerVars == <<workerPc, interval, colorLeft, colorRight,
                leftFrom, rightFrom, leftTo, rightTo, leftDelta, rightDelta, i>>
transVars == <<leftFrom, rightFrom, leftTo, rightTo, leftDelta, rightDelta, i>>
callerVars == <<callPc, callOp, callArg>>
sinkVars == <<pwmDriver, pushKind, transPushes>>
mainVars == <<mainPc, dtor>>
histVars == <<seenLeft, seenRight, waited, surplus>>

vars == <<handlerVars, workerVars, mainVars, callerVars, sinkVars, terminated, histVars>>

\* ------------------------------------------------------------ construction
\* isRunning is assigned by no constructor; its declaration gives the
\* handler's initial lifecycle state, Stopped.
InitialIsRunning == FALSE

\* Both constructors: two default patterns, patternsChanged = false.
ConstructCommon(color) ==
    /\ defaultColor = color
    /\ heap = <<RgbLightConstant(color), RgbLightConstant(color)>>
    /\ patternLeft = 1
    /\ patternRight = 2
    /\ patternsChanged = FALSE
    /\ isRunning = InitialIsRunning
    /\ patternMutex = NoHolder
    /\ workerThread = FALSE

\* RgbLightHandler(defaultColor): transitions disabled.  transitionTime and
\* transitionRefreshInterval are left unassigned; they are read only by
\* transitionBoth, which this configuration never calls, so one value stands
\* for all.
ConstructStatic(color) ==
    /\ ConstructCommon(color)
    /\ transitionsEnabled = FALSE
    /\ transitionRefreshInterval = MaxTransitionRefreshInterval
    /\ transitionTime = MaxTransitionTime

\* RgbLightHandler(defaultColor, transitionRefreshInterval, transitionTime)
ConstructTransition(color, refresh, time) ==
    /\ ConstructCommon(color)
    /\ transitionsEnabled = TRUE
    /\ transitionRefreshInterval = refresh
    /\ transitionTime = time

\* A constructed handler: no worker thread, nothing pushed, and n threads
\* that have their replacement call still to make (the others make none).
Constructed(n) ==
    /\ workerPc = "none"
    /\ interval = InitialInterval
    /\ colorLeft = Black /\ colorRight = Black
    /\ leftFrom = Black /\ rightFrom = Black
    /\ leftTo = Black /\ rightTo = Black
    /\ leftDelta = Black /\ rightDelta = Black
    /\ i = 0
    /\ mainPc = "idle"
    /\ dtor = FALSE
    /\ callPc = [c \in Callers |-> IF c <= n THEN "idle" ELSE "returned"]
    /\ callOp = [c \in Callers |-> NoOp]
    /\ callArg = [c \in Callers |-> NoPattern]
    /\ pwmDriver = <<Black, Black>>
    /\ pushKind = "none"
    /\ transPushes = 0
    /\ terminated = FALSE
    /\ seenLeft = heap[1] /\ seenRight = heap[2]
    /\ waited = [c \in Callers |-> FALSE]
    /\ surplus = 0

\* Either constructor, with every argument up to the bounds, and the
\* handler of the documented scenario.
Init ==
    /\ \/ \E c \in DefaultColors :
             \/ ConstructStatic(c)
             \/ \E refresh \in 0..MaxTransitionRefreshInterval, time \in 0..MaxTransitionTime :
                   ConstructTransition(c, refresh, time)
       \/ ConstructTransition(Black, ScenarioRefreshInterval, ScenarioTransitionTime)
    /\ Constructed(NumCallers)

\* The transition constructor with the largest transition time: with a
\* transition of several steps (the largest refresh interval) and with
\* refresh 0.
LiveInit ==
    /\ \E c \in DefaultColors :
          \E refresh \in {0, MaxTransitionRefreshInterval} :
             ConstructTransition(c, refresh, MaxTransitionTime)
    /\ Constructed(NumLiveCallers)

\* ------------------------------------------------------------------- mutex
\* (variant: a lock that excludes nobody)
MutexFreeBroken == TRUE

\* patternMutex.lock() returns only when no thread holds the mutex.
MutexFree == patternMutex = NoHolder

\* ------------------------------------------------ start() and stop()
\* std::terminate: the process is gone, with every thread and all its state.
Terminate ==
    /\ terminated' = TRUE
    /\ workerThread' = FALSE
    /\ workerPc' = "none"
    /\ isRunning' = FALSE
    /\ patternsChanged' = FALSE
    /\ patternMutex' = NoHolder
    /\ patternLeft' = 1
    /\ patternRight' = 2
    /\ heap' = <<Freed, Freed>>
    /\ interval' = InitialInterval
    /\ colorLeft' = Black /\ colorRight' = Black
    /\ leftFrom' = Black /\ rightFrom' = Black
    /\ leftTo' = Black /\ rightTo' = Black
    /\ leftDelta' = Black /\ rightDelta' = Black
    /\ i' = 0
    /\ mainPc' = "idle"
    /\ dtor' = FALSE
    /\ callPc' = [c \in Callers |-> "idle"]
    /\ callOp' = [c \in Callers |-> NoOp]
    /\ callArg' = [c \in Callers |-> NoPattern]
    /\ pwmDriver' = <<Black, Black>>
    /\ pushKind' = "none"
    /\ transPushes' = 0
    /\ seenLeft' = Freed /\ seenRight' = Freed
    /\ waited' = [c \in Callers |-> FALSE]
    /\ surplus' = 0
    /\ UNCHANGED configVars

\* workerThread = thread(&RgbLightHandler::worker, this), first half: the
\* temporary std::thread is constructed, which starts a thread in worker().
\* When workerThread is not joinable the move-assignment that follows hands
\* that thread to workerThread and start() returns.  When workerThread is
\* still joinable the new thread exists beside the one workerThread owns,
\* and the assignment is still to come.
StartThread ==
    /\ ~terminated
    /\ mainPc = "idle"
    /\ IF workerThread
       THEN /\ mainPc' = "start_assign"
            /\ UNCHANGED <<workerThread, workerPc>>
       ELSE /\ workerThread' = TRUE
            /\ workerPc' = "init"
            /\ UNCHANGED mainPc
    /\ UNCHANGED <<configVars, patternVars, patternsChanged, isRunning,
                   patternMutex, interval, colorLeft, colorRight, transVars,
                   dtor, callerVars, sinkVars, terminated, histVars>>

\* ... second half: move-assigning to a std::thread that is still joinable
\* calls std::terminate.
StartAssign ==
    /\ ~terminated
    /\ mainPc = "start_assign"
    /\ Terminate

start == StartThread \/ StartAssign

\* if (this->isRunning)
StopTakesBranch == isRunning

\* stop(), first statement: the test of isRunning; when it is false the
\* body is skipped and the call is at its return.  The controlling thread
\* calls stop() when it is between calls, or at once after a stop().
StopCheck ==
    /\ ~terminated
    /\ ~dtor
    /\ mainPc \in {"idle", "stop_ret"}
    /\ mainPc' = IF StopTakesBranch THEN "stop_set" ELSE "stop_ret"
    /\ UNCHANGED <<handlerVars, workerVars, dtor, callerVars, sinkVars, terminated,
                   histVars>>

\* this->isRunning = false;
StopSet ==
    /\ ~terminated
    /\ mainPc = "stop_set"
    /\ isRunning' = FALSE
    /\ mainPc' = "stop_join"
    /\ UNCHANGED <<configVars, patternVars, patternsChanged, patternMutex, workerThread,
                   workerVars, dtor, callerVars, sinkVars, terminated, histVars>>

\* if (workerThread.joinable()) workerThread.join();  join() returns when
\* worker() has returned.
StopJoin ==
    /\ ~terminated
    /\ mainPc = "stop_join"
    /\ workerThread => workerPc = "done"
    /\ workerThread' = FALSE
    /\ mainPc' = "stop_ret"
    /\ UNCHANGED <<configVars, patternVars, patternsChanged, isRunning, patternMutex,
                   workerVars, dtor, callerVars, sinkVars, terminated, histVars>>

\* stop() returns to its caller.
StopReturn ==
    /\ ~terminated
    /\ ~dtor
    /\ mainPc = "stop_ret"
    /\ mainPc' = "idle"
    /\ UNCHANGED <<handlerVars, workerVars, dtor, callerVars, sinkVars, terminated,
                   histVars>>

\* ---------------------------------------------------------- destructor
\* ~RgbLightHandler(), "this->stop();": the destructor enters stop().  The
\* handler is destroyed by the controlling thread between its calls, and
\* when no thread is in, or still has to make, a call on the handler.
DestructorStop ==
    /\ ~terminated
    /\ ~dtor
    /\ mainPc = "idle"
    /\ \A c \in Callers : callPc[c] \in {"idle", "returned"}
    /\ dtor' = TRUE
    /\ mainPc' = IF StopTakesBranch THEN "stop_set" ELSE "stop_ret"
    /\ UNCHANGED <<handlerVars, workerVars, callerVars, sinkVars, terminated, histVars>>

\* ~RgbLightHandler(), after stop() has returned: "delete pwmDriver;" and
\* then the destructors of the members.  The destructor of a std::thread
\* that is still joinable calls std::terminate.  patternLeft and
\* patternRight are plain pointers: nothing is done to what they point to.
DestructorDelete ==
    /\ ~terminated
    /\ dtor
    /\ mainPc = "stop_ret"
    /\ IF workerThread
       THEN Terminate
       ELSE /\ mainPc' = "destroyed"
            /\ UNCHANGED <<handlerVars, workerVars, dtor, callerVars, sinkVars,
                           terminated, histVars>>

destructor == DestructorStop \/ DestructorDelete

\* ------------------------------------------------- replacement operations
\* The statements of one replacement call, in program order.
FirstPc(op) == IF op = "Right" THEN "deleteRight" ELSE "deleteLeft"

AfterDeleteLeft(op) == IF op = "Both" THEN "deleteRight" ELSE "cloneLeft"

AfterDeleteRight(op) == IF op = "Both" THEN "cloneLeft" ELSE "cloneRight"

AfterCloneLeft(op) == IF op = "Both" THEN "cloneRight" ELSE "flag"

\* delete p: the slot of the instance is returned to the free store.
Delete(p) == [heap EXCEPT ![p] = Freed]

\* The slot operator new hands out: a free one, else a fresh one.
NewSlot ==
    IF \E s \in DOMAIN heap : heap[s] = Freed
    THEN CHOOSE s \in DOMAIN heap : heap[s] = Freed /\ \A t \in DOMAIN heap : heap[t] = Freed => s <= t
    ELSE Len(heap) + 1

\* pattern->clone(): a new instance with the argument's state.
Clone(p) ==
    IF NewSlot \in DOMAIN heap THEN [heap EXCEPT ![NewSlot] = p] ELSE Append(heap, p)

\* A caller thread enters setPatternLeft, setPatternRight or setPatterns and
\* reaches patternMutex.lock(), the first statement of all three.  Threads
\* are interchangeable, so they make their calls in the order of their
\* numbers.
Call(c) ==
    /\ ~terminated
    /\ ~dtor
    /\ callPc[c] = "idle"
    /\ \A d \in Callers : d < c => callPc[d] # "idle"
    /\ callPc' = [callPc EXCEPT ![c] = "lock"]
    /\ UNCHANGED <<handlerVars, workerVars, mainVars, callOp, callArg, sinkVars,
                   terminated, histVars>>

\* patternMutex.lock(); returns.  Which operation the thread is in, and
\* with which pattern, shows from here on.
CallerLock(c) ==
    /\ ~terminated
    /\ callPc[c] = "lock"
    /\ MutexFree
    /\ patternMutex' = c
    /\ \E op \in Ops, p \in CallerPatterns :
          /\ callOp' = [callOp EXCEPT ![c] = op]
          /\ callArg' = [callArg EXCEPT ![c] = p]
          /\ callPc' = [callPc EXCEPT ![c] = FirstPc(op)]
    /\ UNCHANGED <<configVars, patternVars, patternsChanged, isRunning, workerThread,
                   workerVars, mainVars, sinkVars, terminated, histVars>>

\* if (this->patternLeft != NULL) delete this->patternLeft;
DeleteLeft(c) ==
    /\ ~terminated
    /\ callPc[c] = "deleteLeft"
    /\ heap' = Delete(patternLeft)
    /\ callPc' = [callPc EXCEPT ![c] = AfterDeleteLeft(callOp[c])]
    /\ UNCHANGED <<configVars, patternLeft, patternRight, patternsChanged,
                   isRunning, patternMutex, workerThread, workerVars, mainVars,
                   callOp, callArg, sinkVars, terminated, histVars>>

\* if (this->patternRight != NULL) delete this->patternRight;
DeleteRight(c) ==
    /\ ~terminated
    /\ callPc[c] = "deleteRight"
    /\ heap' = Delete(patternRight)
    /\ callPc' = [callPc EXCEPT ![c] = AfterDeleteRight(callOp[c])]
    /\ UNCHANGED <<configVars, patternLeft, patternRight, patternsChanged,
                   isRunning, patternMutex, workerThread, workerVars, mainVars,
                   callOp, callArg, sinkVars, terminated, histVars>>

\* this->patternLeft = pattern->clone();
CloneLeft(c) ==
    /\ ~terminated
    /\ callPc[c] = "cloneLeft"
    /\ heap' = Clone(callArg[c])
    /\ patternLeft' = NewSlot
    /\ callPc' = [callPc EXCEPT ![c] = AfterCloneLeft(callOp[c])]
    /\ UNCHANGED <<configVars, patternRight, patternsChanged, isRunning, patternMutex,
                   workerThread, workerVars, mainVars, callOp, callArg, sinkVars,
                   terminated, histVars>>

\* (variant: the right side is given the left side's clone)
CloneRightShared(c) ==
    /\ ~terminated
    /\ callPc[c] = "cloneRight"
    /\ patternRight' = patternLeft
    /\ callPc' = [callPc EXCEPT ![c] = "flag"]
    /\ UNCHANGED <<configVars, patternLeft, heap, patternsChanged, isRunning,
                   patternMutex, workerThread, workerVars, mainVars, callOp, callArg,
                   sinkVars, terminated, histVars>>

\* this->patternRight = pattern->clone();
CloneRight(c) ==
    /\ ~terminated
    /\ callPc[c] = "cloneRight"
    /\ heap' = Clone(callArg[c])
    /\ patternRight' = NewSlot
    /\ callPc' = [callPc EXCEPT ![c] = "flag"]
    /\ UNCHANGED <<configVars, patternLeft, patternsChanged, isRunning, patternMutex,
                   workerThread, workerVars, mainVars, callOp, callArg, sinkVars,
                   terminated, histVars>>

\* (variant: the replacement forgets to raise the dirty flag)
SetChangedForgotten(c) ==
    /\ ~terminated
    /\ callPc[c] = "flag"
    /\ callPc' = [callPc EXCEPT ![c] = "unlock"]
    /\ UNCHANGED <<handlerVars, workerVars, mainVars, callOp, callArg, sinkVars,
                   terminated, histVars>>

\* this->patternsChanged = true;
SetChanged(c) ==
    /\ ~terminated
    /\ callPc[c] = "flag"
    /\ patternsChanged' = TRUE
    /\ surplus' = surplus + 1
    /\ callPc' = [callPc EXCEPT ![c] = "unlock"]
    /\ UNCHANGED <<configVars, patternVars, isRunning, patternMutex, workerThread,
                   workerVars, mainVars, callOp, callArg, sinkVars, terminated,
                   seenLeft, seenRight, waited>>

\* patternMutex.unlock(); and return
CallerUnlock(c) ==
    /\ ~terminated
    /\ callPc[c] = "unlock"
    /\ patternMutex' = NoHolder
    /\ callPc' = [callPc EXCEPT ![c] = "returned"]
    /\ callOp' = [callOp EXCEPT ![c] = NoOp]
    /\ callArg' = [callArg EXCEPT ![c] = NoPattern]
    /\ waited' = [waited EXCEPT ![c] = FALSE]
    /\ UNCHANGED <<configVars, patternVars, patternsChanged, isRunning, workerThread,
                   workerVars, mainVars, sinkVars, terminated, seenLeft, seenRight,
                   surplus>>

\* ------------------------------------------------------ transitionBoth
Min(a, b) == IF a < b THEN a ELSE b

Max(a, b) == IF a < b THEN b ELSE a

\* max(min(x, 1.0f), 0.0f)
Clamp(x) == Max(Min(x, Scale), 0)

\* pattern->getColor() and pattern->refreshInterval of the instance p points to
getColor(p) == heap[p].color

refreshInterval(p) == heap[p].refreshInterval

\* float maxi = transitionTime / (float) transitionRefreshInterval;
\* maxi is +infinity for x / 0 with x > 0, NaN for 0 / 0, and the exact
\* quotient otherwise.  "maxi == 0.0" is true only for 0 / x with x > 0.
MaxiIsZero == transitionTime = 0 /\ transitionRefreshInterval # 0

\* (variant: the delta is the whole difference)
DivMaxiUnscaled(d) == d

\* d / maxi.  d / +infinity is 0; d / NaN is NaN, which is represented by
\* 0 here because the loop that would read it never runs (k < NaN is false).
DivMaxi(d) ==
    IF transitionRefreshInterval = 0
    THEN 0
    ELSE (d * transitionRefreshInterval) \div transitionTime

\* "k < maxi" with int k converted to float
LoopCond(k) ==
    IF transitionRefreshInterval = 0
    THEN transitionTime > 0
    ELSE k * transitionRefreshInterval < transitionTime

\* i++.  A loop that ends makes at most transitionTime passes.  Where it
\* never ends (maxi infinite) the test is true for every value of i, and the
\* counter is kept within 0..transitionTime.
NextI(k) == IF k < transitionTime THEN k + 1 ELSE 0

\* The number of pairs the running transitionBoth has pushed, counted up to
\* transitionTime + 1.
NextCount(k) == IF k <= transitionTime THEN k + 1 ELSE k

\* transitionBoth(colorLeft, colorRight) up to the loop: the parameters
\* (copies of the worker's colours), the targets, maxi, the early return, the
\* deltas.
TransitionBegin ==
    /\ leftFrom' = colorLeft
    /\ rightFrom' = colorRight
    /\ leftTo' = getColor(patternLeft)
    /\ rightTo' = getColor(patternRight)
    /\ IF MaxiIsZero
       THEN /\ leftDelta' = Black
            /\ rightDelta' = Black
            /\ workerPc' = "clear"
       ELSE /\ leftDelta' = [j \in Channels |-> DivMaxi(getColor(patternLeft)[j] - colorLeft[j])]
            /\ rightDelta' = [j \in Channels |-> DivMaxi(getColor(patternRight)[j] - colorRight[j])]
            /\ workerPc' = "trans_loop"
    /\ i' = 0
    /\ transPushes' = 0
    /\ surplus' = surplus - 1

\* One pass of "for (int i = 0; i < maxi; i++)": the new colours, the push,
\* the sleep and i++; or the exit of the loop and the return.
TransitionStep ==
    /\ ~terminated
    /\ workerPc = "trans_loop"
    /\ IF LoopCond(i)
       THEN /\ leftFrom' = [j \in Channels |-> Clamp(leftFrom[j] + leftDelta[j])]
            /\ rightFrom' = [j \in Channels |-> Clamp(rightFrom[j] + rightDelta[j])]
            /\ pwmDriver' = <<leftFrom', rightFrom'>>
            /\ pushKind' = "transition"
            /\ transPushes' = NextCount(transPushes)
            /\ i' = NextI(i)
            /\ workerPc' = "trans_loop"
            /\ waited' = [c \in Callers |-> waited[c] \/ callPc[c] = "lock"]
       ELSE /\ workerPc' = "clear"
            /\ UNCHANGED <<leftFrom, rightFrom, i, sinkVars, waited>>
    /\ UNCHANGED <<handlerVars, interval, colorLeft, colorRight, leftTo, rightTo,
                   leftDelta, rightDelta, mainVars, callerVars, terminated, seenLeft,
                   seenRight, surplus>>

\* ------------------------------------------------------------------ worker
\* this->isRunning = true; and the initial values of the locals
WorkerInit ==
    /\ ~terminated
    /\ workerPc = "init"
    /\ isRunning' = TRUE
    /\ interval' = InitialInterval
    /\ colorLeft' = Black
    /\ colorRight' = Black
    /\ workerPc' = "while"
    /\ UNCHANGED <<configVars, patternVars, patternsChanged, patternMutex, workerThread,
                   transVars, mainVars, callerVars, sinkVars, terminated, histVars>>

\* while (this->isRunning)
WorkerWhile ==
    /\ ~terminated
    /\ workerPc = "while"
    /\ workerPc' = IF isRunning THEN "lock" ELSE "done"
    /\ UNCHANGED <<handlerVars, interval, colorLeft, colorRight, transVars, mainVars,
                   callerVars, sinkVars, terminated, histVars>>

\* (variant: the worker enters its section without taking the mutex)
WorkerLockSkipped ==
    /\ ~terminated
    /\ workerPc = "lock"
    /\ workerPc' = "check"
    /\ UNCHANGED <<handlerVars, interval, colorLeft, colorRight, transVars, mainVars,
                   callerVars, sinkVars, terminated, histVars>>

\* patternMutex.lock();
WorkerLock ==
    /\ ~terminated
    /\ workerPc = "lock"
    /\ MutexFree
    /\ patternMutex' = WorkerHolder
    /\ workerPc' = "check"
    /\ UNCHANGED <<configVars, patternVars, patternsChanged, isRunning, workerThread,
                   interval, colorLeft, colorRight, transVars, mainVars, callerVars,
                   sinkVars, terminated, histVars>>

\* (variant: the dirty check forgets transitionsEnabled)
ShouldTransitionAlways == patternsChanged

\* if (this->patternsChanged && this->transitionsEnabled)
ShouldTransition == patternsChanged /\ transitionsEnabled

\* The dirty check and, when it succeeds, the call of transitionBoth.
WorkerCheck ==
    /\ ~terminated
    /\ workerPc = "check"
    /\ IF ShouldTransition
       THEN TransitionBegin
       ELSE /\ workerPc' = "sample"
            /\ UNCHANGED <<transVars, transPushes, surplus>>
    /\ UNCHANGED <<handlerVars, interval, colorLeft, colorRight, mainVars, callerVars,
                   pwmDriver, pushKind, terminated, seenLeft, seenRight, waited>>

\* (variant: the dirty flag is left set after the transition)
WorkerClearForgotten ==
    /\ ~terminated
    /\ workerPc = "clear"
    /\ workerPc' = "sample"
    /\ leftFrom' = Black /\ rightFrom' = Black
    /\ leftTo' = Black /\ rightTo' = Black
    /\ leftDelta' = Black /\ rightDelta' = Black
    /\ i' = 0
    /\ transPushes' = 0
    /\ UNCHANGED <<handlerVars, interval, colorLeft, colorRight, mainVars, callerVars,
                   pwmDriver, pushKind, terminated, histVars>>

\* this->patternsChanged = false; after transitionBoth has returned (its
\* locals end with it).
WorkerClear ==
    /\ ~terminated
    /\ workerPc = "clear"
    /\ patternsChanged' = FALSE
    /\ workerPc' = "sample"
    /\ leftFrom' = Black /\ rightFrom' = Black
    /\ leftTo' = Black /\ rightTo' = Black
    /\ leftDelta' = Black /\ rightDelta' = Black
    /\ i' = 0
    /\ transPushes' = 0
    /\ UNCHANGED <<configVars, patternVars, isRunning, patternMutex, workerThread,
                   interval, colorLeft, colorRight, mainVars, callerVars, pwmDriver,
                   pushKind, terminated, histVars>>

\* (variant: only the left pattern determines the interval)
MinIntervalLeftOnly(l, r) == l

\* min(patternLeft->refreshInterval, patternRight->refreshInterval)
MinInterval(l, r) == Min(l, r)

\* interval = min(...); colorLeft = patternLeft->getColor();
\* colorRight = patternRight->getColor();
WorkerSample ==
    /\ ~terminated
    /\ workerPc = "sample"
    /\ interval' = MinInterval(refreshInterval(patternLeft), refreshInterval(patternRight))
    /\ colorLeft' = getColor(patternLeft)
    /\ colorRight' = getColor(patternRight)
    /\ seenLeft' = heap[patternLeft]
    /\ seenRight' = heap[patternRight]
    /\ workerPc' = "unlock"
    /\ UNCHANGED <<handlerVars, transVars, mainVars, callerVars, sinkVars, terminated,
                   waited, surplus>>

\* (variant: the worker keeps the mutex)
WorkerUnlockForgotten ==
    /\ ~terminated
    /\ workerPc = "unlock"
    /\ workerPc' = "push"
    /\ UNCHANGED <<handlerVars, interval, colorLeft, colorRight, transVars, mainVars,
                   callerVars, sinkVars, terminated, histVars>>

\* patternMutex.unlock();
WorkerUnlock ==
    /\ ~terminated
    /\ workerPc = "unlock"
    /\ patternMutex' = NoHolder
    /\ workerPc' = "push"
    /\ UNCHANGED <<configVars, patternVars, patternsChanged, isRunning, workerThread,
                   interval, colorLeft, colorRight, transVars, mainVars, callerVars,
                   sinkVars, terminated, histVars>>

\* pwmDriver->setRgbw(colorLeft, colorRight);
WorkerPush ==
    /\ ~terminated
    /\ workerPc = "push"
    /\ pwmDriver' = <<colorLeft, colorRight>>
    /\ pushKind' = "sample"
    /\ workerPc' = "sleep"
    /\ UNCHANGED <<handlerVars, interval, colorLeft, colorRight, transVars, mainVars,
                   callerVars, transPushes, terminated, histVars>>

\* this_thread::sleep_for(chrono::milliseconds(interval));
WorkerSleep ==
    /\ ~terminated
    /\ workerPc = "sleep"
    /\ workerPc' = "while"
    /\ UNCHANGED <<handlerVars, interval, colorLeft, colorRight, transVars, mainVars,
                   callerVars, sinkVars, terminated, histVars>>

\* ----------------------------------------------------------- specification
Worker ==
    \/ WorkerInit
    \/ WorkerWhile
    \/ WorkerLock
    \/ WorkerCheck
    \/ TransitionStep
    \/ WorkerClear
    \/ WorkerSample
    \/ WorkerUnlock
    \/ WorkerPush
    \/ WorkerSleep

stop == StopCheck \/ StopSet \/ StopJoin \/ StopReturn

Replace(c) ==
    \/ CallerLock(c)
    \/ DeleteLeft(c)
    \/ DeleteRight(c)
    \/ CloneLeft(c)
    \/ CloneRight(c)
    \/ SetChanged(c)
    \/ CallerUnlock(c)

Next ==
    \/ start
    \/ stop
    \/ destructor
    \/ Worker
    \/ \E c \in Callers : Call(c)
    \/ \E c \in Callers : Replace(c)

Spec == Init /\ [][Next]_vars

\* Scheduling: a thread that can take its next step, and stays able to,
\* takes it (a sleep ends, a thread is given the processor, a join returns
\* once the worker has).  Nothing is assumed about which of several threads
\* waiting in patternMutex.lock() gets the mutex, and nothing obliges the
\* controlling thread or the callers to make a call.
Fairness ==
    /\ WF_vars(Worker)
    /\ WF_vars(StartAssign \/ StopSet \/ StopJoin \/ StopReturn \/ DestructorDelete)
    /\ \A c \in Callers : WF_vars(Replace(c))

LiveSpec == LiveInit /\ [][Next]_vars /\ Fairness

\* ------------------------------------------------------------------ claims
\* A caller is between its lock() and its unlock().
InCallerSection(c) ==
    callPc[c] \in {"deleteLeft", "deleteRight", "cloneLeft", "cloneRight", "flag", "unlock"}

\* The worker is between its lock() and its unlock().
InWorkerSection == workerPc \in {"check", "trans_loop", "clear", "sample", "unlock"}

\* The worker thread exists and has not returned from worker().
WorkerAlive == workerPc \notin {"none", "done"}

\* C1: when stop() is at its return, the worker thread has exited (it was
\* never started, or worker() has returned), so nothing is pushed once stop()
\* has returned.
C1_StopWaitsForWorker == mainPc = "stop_ret" => ~WorkerAlive

\* C2: replacement calls and the worker's locked section are mutually
\* exclusive for any number of callers; while the worker is in its section
\* both pattern pointers refer to live instances, and at its dirty check
\* patterns other than the ones it sampled last come with the dirty flag set.
C2_MutualExclusion ==
    /\ \A c \in Callers :
          InCallerSection(c) =>
             /\ ~InWorkerSection
             /\ \A d \in Callers : d # c => ~InCallerSection(d)
    /\ InWorkerSection => heap[patternLeft] # Freed /\ heap[patternRight] # Freed
    /\ workerPc = "check" =>
          ((heap[patternLeft] # seenLeft \/ heap[patternRight] # seenRight) => patternsChanged)

\* A caller has deleted the old left pattern and not yet installed its clone,
\* while the worker and another caller wait for the mutex.
C2_Witness ==
    \E c, d \in Callers :
       /\ callPc[c] = "cloneLeft"
       /\ heap[patternLeft] = Freed
       /\ callPc[d] = "lock"
       /\ workerPc = "lock"

\* C3: while transitionBoth runs its loop no replacement takes effect (the
\* installed patterns and the dirty flag stay as they are), every call that
\* waits for the mutex keeps waiting, and every pair that reaches the sink is
\* pushed by the transition.
C3_TransitionNotInterrupted ==
    [][(workerPc = "trans_loop" /\ ~terminated') =>
          /\ patternLeft' = patternLeft
          /\ patternRight' = patternRight
          /\ heap' = heap
          /\ patternsChanged' = patternsChanged
          /\ \A c \in Callers : ~InCallerSection(c) /\ callPc'[c] \in {"idle", "lock", "returned"}
          /\ \A c \in Callers : callPc[c] = "lock" => callPc'[c] = "lock"
          /\ (pwmDriver' # pwmDriver \/ pushKind' # pushKind) => pushKind' = "transition"]_vars

\* A transition has pushed a pair and has more to push while a replacement
\* call waits for the mutex.
C3_Witness ==
    /\ workerPc = "trans_loop"
    /\ transPushes >= 1
    /\ LoopCond(i)
    /\ \E c \in Callers : callPc[c] = "lock"

\* The call of thread c replaces the left (right) pattern.
ReplacesLeft(c) == callOp[c] \in {"Left", "Both"}

ReplacesRight(c) == callOp[c] \in {"Right", "Both"}

\* The call of thread c waited for the mutex during a transition and has now
\* installed its clone(s) and raised the dirty flag.
InstalledAfterWaiting(c) == callPc[c] = "unlock" /\ waited[c]

\* Such a call has installed a clone of p on the left (right).
WaitedLeft(p) ==
    \E c \in Callers : InstalledAfterWaiting(c) /\ ReplacesLeft(c) /\ callArg[c] = p

WaitedRight(p) ==
    \E c \in Callers : InstalledAfterWaiting(c) /\ ReplacesRight(c) /\ callArg[c] = p

\* The worker has sampled pattern p on the left (right) and pushed the
\* sample to the sink.
DisplayedLeft(p) ==
    workerPc = "sleep" /\ pushKind = "sample" /\ seenLeft = p /\ pwmDriver[1] = p.color

DisplayedRight(p) ==
    workerPc = "sleep" /\ pushKind = "sample" /\ seenRight = p /\ pwmDriver[2] = p.color

\* stop() has asked the worker to finish, or the worker does not run.
Stopping == ~isRunning \/ ~WorkerAlive \/ terminated

InRange(pair) ==
    \A k \in 1..2 : \A j \in Channels : pair[k][j] >= 0 /\ pair[k][j] <= Scale

\* C5: when transitionBoth has returned, it has pushed exactly
\* transitionTime / transitionRefreshInterval (truncated) pairs, every
\* channel pushed lies in [0, 1], and the last pair pushed is the pair of
\* target colours.
C5_TransitionPushesTruncatedCount ==
    (workerPc = "clear" /\ transitionRefreshInterval > 0) =>
       /\ transPushes = transitionTime \div transitionRefreshInterval
       /\ InRange(pwmDriver)
       /\ transPushes > 0 => pwmDriver = <<leftTo, rightTo>>

\* C6: when transitionTime / transitionRefreshInterval truncates to 0, the
\* transition pushes no pair.
C6_NoPushWhenStepsTruncateToZero ==
    (/\ workerPc \in {"trans_loop", "clear"}
     /\ transitionRefreshInterval > 0
     /\ transitionTime \div transitionRefreshInterval = 0) => transPushes = 0

\* C7: with a zero transitionTime or a zero transitionRefreshInterval the
\* transition is an immediate switch: its loop is not entered and it pushes
\* no pair.
C7_ZeroShortCircuits ==
    (transitionsEnabled /\ (transitionTime = 0 \/ transitionRefreshInterval = 0)) =>
       /\ transPushes = 0
       /\ workerPc = "trans_loop" => ~LoopCond(i)

\* C8: with transitions disabled no pair is ever pushed by a transition; a
\* replacement call that returns leaves its clone installed on the side(s) it
\* replaces; and what the worker samples, and then pushes, are the colours of
\* the patterns installed at the time of the sample.
C8_SnapWithoutTransition ==
    /\ [](~transitionsEnabled =>
            /\ pushKind # "transition"
            /\ workerPc # "trans_loop"
            /\ workerPc = "unlock" =>
                  /\ colorLeft = getColor(patternLeft)
                  /\ colorRight = getColor(patternRight)
            /\ workerPc = "sleep" => pwmDriver = <<colorLeft, colorRight>>)
    /\ [][\A c \in Callers :
             (~transitionsEnabled /\ callPc[c] = "unlock" /\ callPc'[c] = "returned") =>
                /\ callOp[c] \in {"Left", "Both"} => heap'[patternLeft'] = callArg[c]
                /\ callOp[c] \in {"Right", "Both"} => heap'[patternRight'] = callArg[c]]_vars

\* Transitions are disabled, a replacement of the left pattern has returned,
\* and the pair on display is the worker's sample of the new pattern.
C8_Witness ==
    /\ ~transitionsEnabled
    /\ \E c \in Callers : callPc[c] = "returned"
    /\ pushKind = "sample"
    /\ pwmDriver[1] = White
    /\ getColor(patternLeft) = White

\* C9 as stated: while the worker sleeps between ticks (and no replacement
\* is half done), interval is the min of the refresh intervals of the
\* patterns installed at that moment.
C9_SleepIsMinOfInstalled ==
    (workerPc = "sleep" /\ MutexFree) =>
       interval = Min(refreshInterval(patternLeft), refreshInterval(patternRight))

\* C9 amended: the interval the worker sleeps for is the min of the refresh
\* intervals of the patterns it sampled in the same tick; these are the
\* installed patterns as long as the worker holds the mutex.
C9_SleepIsMinOfSampled ==
    /\ workerPc \in {"unlock", "push", "sleep"} =>
          interval = Min(seenLeft.refreshInterval, seenRight.refreshInterval)
    /\ workerPc = "unlock" =>
          interval = Min(refreshInterval(patternLeft), refreshInterval(patternRight))

\* The worker sleeps after sampling two patterns whose refresh intervals
\* differ.
C9_Witness ==
    /\ workerPc = "sleep"
    /\ seenLeft.refreshInterval # seenRight.refreshInterval
    /\ seenLeft.refreshInterval > seenRight.refreshInterval

\* C10: a stop() that starts at once after a stop() has returned, or on a
\* handler that was never started, skips the body of stop(): it neither
\* changes isRunning nor waits for the worker.
C10_StopWhenNotRunningIsNoOp ==
    [][(mainPc = "stop_ret" \/ (workerPc = "none" /\ ~terminated)) =>
          mainPc' # "stop_set"]_vars

\* The number of threads that are in worker(): the one workerThread owns,
\* and the one of the temporary std::thread of a start() in progress.
WorkersAlive ==
    (IF WorkerAlive THEN 1 ELSE 0) + (IF mainPc = "start_assign" THEN 1 ELSE 0)

\* C11: whatever start() and stop() calls are made, at most one worker
\* thread is alive at any time.
C11_AtMostOneWorker == WorkersAlive <= 1

\* C12: a pattern instance is alive when it is deleted (none is destroyed
\* twice), and once the destructor has completed no pattern instance of the
\* handler is alive.
C12_PatternsDestroyedExactlyOnce ==
    /\ \A c \in Callers :
          /\ callPc[c] = "deleteLeft" => heap[patternLeft] # Freed
          /\ callPc[c] = "deleteRight" => heap[patternRight] # Freed
    /\ mainPc = "destroyed" => \A s \in DOMAIN heap : heap[s] = Freed

\* C13: patternLeft and patternRight never point to the same instance, and
\* a call that replaces one side only leaves the other side's pointer and
\* the (live) instance it points to as they are.
C13_DistinctClones ==
    /\ [](patternLeft # patternRight)
    /\ [][\A c \in Callers :
             (InCallerSection(c) /\ ~terminated') =>
                /\ callOp[c] = "Left" =>
                      /\ patternRight' = patternRight
                      /\ heap[patternRight] # Freed
                      /\ heap'[patternRight] = heap[patternRight]
                /\ callOp[c] = "Right" =>
                      /\ patternLeft' = patternLeft
                      /\ heap[patternLeft] # Freed
                      /\ heap'[patternLeft] = heap[patternLeft]]_vars

\* After a setPatterns call gave both sides the same pattern (the worker
\* sampled it on both), a setPatternLeft call has deleted the left instance
\* and installed its clone; the right side still holds its instance.
C13_Witness ==
    \E c \in Callers :
       /\ callPc[c] = "unlock"
       /\ callOp[c] = "Left"
       /\ seenLeft \in CallerPatterns
       /\ seenLeft = seenRight
       /\ heap[patternLeft] = callArg[c]
       /\ callArg[c] # seenLeft
       /\ heap[patternRight] = seenRight

\* transitionTime is an exact multiple of transitionRefreshInterval.
ExactSteps ==
    transitionRefreshInterval > 0 /\ transitionTime % transitionRefreshInterval = 0

Steps == transitionTime \div transitionRefreshInterval

\* The handler of the documented scenario is in a transition from
\* [0,0,0,0] to [1,1,1,1] on both sides.
InScenario ==
    /\ transitionRefreshInterval = ScenarioRefreshInterval
    /\ transitionTime = ScenarioTransitionTime
    /\ defaultColor = Black
    /\ workerPc \in {"trans_loop", "clear"}
    /\ colorLeft = Black /\ colorRight = Black
    /\ leftTo = White /\ rightTo = White

\* C14: when transitionTime is an exact multiple of
\* transitionRefreshInterval, the k-th pair the transition pushes is
\* from + k * (target - from) / steps on every channel and the steps-th, the
\* last, is the pair of targets; in the documented scenario there are 10
\* pushes, each channel rising by 0.1 per push, ending at [1,1,1,1].
C14_LinearInterpolation ==
    /\ (workerPc \in {"trans_loop", "clear"} /\ ExactSteps) =>
          /\ transPushes = i
          /\ i <= Steps
          /\ \A j \in Channels :
                /\ Steps * (leftFrom[j] - colorLeft[j]) = i * (leftTo[j] - colorLeft[j])
                /\ Steps * (rightFrom[j] - colorRight[j]) = i * (rightTo[j] - colorRight[j])
          /\ i > 0 => (pushKind = "transition" /\ pwmDriver = <<leftFrom, rightFrom>>)
          /\ workerPc = "clear" =>
                /\ i = Steps
                /\ Steps > 0 => pwmDriver = <<leftTo, rightTo>>
    /\ InScenario =>
          /\ \A j \in Channels :
                /\ 10 * leftFrom[j] = i * Scale
                /\ 10 * rightFrom[j] = i * Scale
          /\ workerPc = "clear" => (transPushes = 10 /\ pwmDriver = <<White, White>>)

\* The documented scenario: one call, setPatterns of a constant
\* [1,1,1,1], was made before the worker's first sample, and the transition
\* has pushed its 10 pairs, the last being [1,1,1,1] on both sides.
C14_Witness ==
    /\ InScenario
    /\ workerPc = "clear"
    /\ transPushes = 10
    /\ pwmDriver = <<White, White>>
    /\ callPc[1] = "returned"
    /\ \A c \in Callers : c <= NumCallers /\ c # 1 => callPc[c] = "idle"

\* C15: once the worker is past its dirty check (it is about to sample, or
\* has sampled, under the mutex) the dirty flag is clear, with transitions
\* enabled and with transitions disabled.
C15_DirtyFlagClearedAtCheck ==
    workerPc \in {"sample", "unlock"} => ~patternsChanged

\* C16: once stop() has set isRunning to false the worker starts no further
\* iteration: from the loop test it only leaves the loop; and the worker
\* completes the iteration it is in, so that stop(), waiting in join(),
\* eventually returns.
C16_StopIsCooperative ==
    /\ [][(workerPc = "while" /\ ~isRunning /\ ~terminated') =>
             workerPc' \in {"while", "done"}]_vars
    /\ [][(mainPc = "stop_join" /\ mainPc' = "stop_ret") => ~WorkerAlive]_vars
    /\ (mainPc = "stop_join") ~> (mainPc = "stop_ret")

\* C17: the worker holds the mutex exactly from its lock() to its unlock():
\* not while it pushes a sampled pair and not while it sleeps; and while it
\* holds the mutex nothing but a transition pushes or sleeps.
C17_NoLockDuringPushAndSleep ==
    /\ []((patternMutex = WorkerHolder) <=> InWorkerSection)
    /\ [](workerPc \in {"push", "sleep"} => patternMutex # WorkerHolder)
    /\ [][(patternMutex = WorkerHolder /\ pwmDriver' # pwmDriver) =>
             (workerPc = "trans_loop" \/ terminated')]_vars

\* A replacement call is in its locked section while the worker sleeps.
C17_Witness ==
    /\ workerPc = "sleep"
    /\ \E c \in Callers : InCallerSection(c) /\ patternMutex = c

\* C18: the from-pair of every transition is the pair pushed to the sink
\* last, and the pair of default colours when nothing has been pushed yet.
C18_TransitionStartsFromDisplayed ==
    [][(workerPc = "check" /\ workerPc' \in {"trans_loop", "clear"} /\ ~terminated') =>
          IF pushKind = "none"
          THEN leftFrom' = defaultColor /\ rightFrom' = defaultColor
          ELSE <<leftFrom', rightFrom'>> = pwmDriver]_vars

\* C19: at every step of a replacement call (and at any other time) both
\* pattern pointers refer to live instances.
C19_NeverPointsToDestroyed ==
    ~terminated => (heap[patternLeft] # Freed /\ heap[patternRight] # Freed)

====
